---- MODULE Spec2Model ----
(***************************************************************************)
(* A model of scripts/preprocess_snli.py: the __main__ block that reads    *)
(* the JSON configuration and the function preprocess_SNLI_data, which     *)
(* selects the train/dev/test files of the input directory by filename     *)
(* pattern, drives one Preprocessor through the three splits and the       *)
(* embeddings, and pickles the five results into the target directory.     *)
(*                                                                         *)
(* One step of the model is one statement of the script that touches the   *)
(* outside world (a file operation or a Preprocessor call) or one          *)
(* iteration of the loop over the directory listing.  Every statement that *)
(* can raise has a raising outcome: the script has no try/except, so an    *)
(* exception ends the run where it is raised.                              *)
(*                                                                         *)
(* File names are sequences of characters, so that fnmatch is computed;    *)
(* the empty name "" is << >>.  The values handed around by the external   *)
(* Preprocessor are terms tagged with the call that produced them.         *)
(***************************************************************************)
EXTENDS Integers, Sequences, FiniteSets, TLC

VARIABLES
  pc,               \* the statement about to be executed, "done" or "failed"
  failedAt,         \* the statement that raised ("" if none did)
  cfgFile,          \* the config file: unreadable, or JSON with some keys
  config,           \* the keys of the dict json.load returned
  argIdx,           \* the next argument of the call at lines 136-145
  posix,            \* os.path.normcase is the identity (False: Windows)
  dirs,             \* the directories that exist
  fs,               \* path -> content of the file there
  dirs0, fs0,       \* dirs and fs when the run started
  listing,          \* what os.listdir(inputdir) returned
  i,                \* position of the for loop in listing
  train_file, dev_file, test_file,
  instances,        \* number of Preprocessor objects constructed
  worddict,         \* preprocessor.worddict
  data, transformed_data, embed_matrix,
  calls             \* the calls made so far, in order

vars == <<pc, failedAt, cfgFile, config, argIdx, posix, dirs, fs, dirs0,
          fs0, listing, i, train_file, dev_file, test_file, instances,
          worddict, data, transformed_data, embed_matrix, calls>>

-----------------------------------------------------------------------------
(* Bounds of the model.                                                    *)

\* The input directory holds at most MaxFiles files.
MaxFiles == 3

\* The config file lacks at most MaxMissing of the required keys.
MaxMissing == 1

-----------------------------------------------------------------------------
(* Names.                                                                  *)

TrainPat == <<"*", "_", "t", "r", "a", "i", "n", ".", "t", "x", "t">>
DevPat   == <<"*", "_", "d", "e", "v", ".", "t", "x", "t">>
TestPat  == <<"*", "_", "t", "e", "s", "t", ".", "t", "x", "t">>

\* The names a file of the input directory may have: two train files, a dev
\* file, a dev file in upper case, a test file whose name is the bare suffix,
\* and a name that matches no pattern (no underscore).
InputNames ==
  { <<"a", "_", "t", "r", "a", "i", "n", ".", "t", "x", "t">>,
    <<"b", "_", "t", "r", "a", "i", "n", ".", "t", "x", "t">>,
    <<"a", "_", "d", "e", "v", ".", "t", "x", "t">>,
    <<"A", "_", "D", "E", "V", ".", "T", "X", "T">>,
    <<"_", "t", "e", "s", "t", ".", "t", "x", "t">>,
    <<"t", "r", "a", "i", "n", ".", "t", "x", "t">> }

WorddictPkl   == <<"w", "o", "r", "d", "d", "i", "c", "t", ".", "p", "k", "l">>
TrainPkl      == <<"t", "r", "a", "i", "n", "_", "d", "a", "t", "a", ".", "p", "k", "l">>
DevPkl        == <<"d", "e", "v", "_", "d", "a", "t", "a", ".", "p", "k", "l">>
TestPkl       == <<"t", "e", "s", "t", "_", "d", "a", "t", "a", ".", "p", "k", "l">>
EmbeddingsPkl == <<"e", "m", "b", "e", "d", "d", "i", "n", "g", "s", ".", "p", "k", "l">>

\* The five files the script writes, in the order it writes them.
OutputOrder == <<WorddictPkl, TrainPkl, DevPkl, TestPkl, EmbeddingsPkl>>
OutputNames == {OutputOrder[k] : k \in 1..Len(OutputOrder)}

\* A file of the target directory the script does not write.
NotesTxt == <<"n", "o", "t", "e", "s", ".", "t", "x", "t">>

\* What the target directory may hold before the run.
OldNames == {DevPkl, NotesTxt}

\* config["data_dir"], config["target_dir"], config["embeddings_file"] after
\* os.path.normpath: two different directories and a file.
inputdir        == "data_dir"
targetdir       == "target_dir"
embeddings_file == "embeddings_file"

\* The keys read at lines 136-145, in the order Python evaluates them.
KeyOrder == <<"data_dir", "embeddings_file", "target_dir", "lowercase",
              "ignore_punctuation", "num_words", "stopwords", "labeldict",
              "bos", "eos">>
Keys == {KeyOrder[k] : k \in 1..Len(KeyOrder)}

-----------------------------------------------------------------------------
(* os.path.join, os.path.normcase, fnmatch.                                *)

\* os.path.join(dir, name) for a name without a separator: the directory and
\* the name; Join(dir, << >>) is the directory itself ("dir/").
Join(dir, name) == <<"path", dir, name>>

Lower(c) ==
  CASE c = "A" -> "a" [] c = "D" -> "d" [] c = "E" -> "e" [] c = "V" -> "v"
    [] c = "T" -> "t" [] c = "X" -> "x" [] c = "/" -> "\\"
    [] OTHER -> c

\* os.path.normcase: the identity on POSIX; on Windows lower case, and
\* backslashes for slashes.
NormCase(s) == IF posix THEN s ELSE [k \in 1..Len(s) |-> Lower(s[k])]

\* fnmatch.fnmatchcase for patterns of literals, "*" and "?".
RECURSIVE FnMatchCase(_, _)
FnMatchCase(name, pat) ==
  IF pat = << >> THEN name = << >>
  ELSE IF Head(pat) = "*"
    THEN \E k \in 0..Len(name) :
           FnMatchCase(SubSeq(name, k + 1, Len(name)), Tail(pat))
  ELSE /\ name # << >>
       /\ Head(pat) = "?" \/ Head(pat) = Head(name)
       /\ FnMatchCase(Tail(name), Tail(pat))

\* fnmatch.fnmatch(name, pat).
FnMatch(name, pat) == FnMatchCase(NormCase(name), NormCase(pat))

-----------------------------------------------------------------------------
(* File contents and the Preprocessor's values.                            *)

Absent  == <<"absent">>       \* no such file
Old     == <<"old">>          \* a file from before the run
Empty   == <<"empty">>        \* opened with 'wb': created or truncated
Partial == <<"partial">>      \* pickle.dump raised after writing some bytes
None    == <<"None">>

Pickled(v) == <<"pickle", v>>

\* What the Preprocessor's methods return, as terms: read_data(path),
\* build_worddict(data) (the new worddict), and transform_to_indices(data)
\* and build_embedding_matrix(file) of a preprocessor whose worddict is wd.
\* Each call may also raise, whatever its argument.
ReadData(path) == <<"read_data", path>>
BuildWorddict(d) == <<"worddict", d>>
TransformToIndices(wd, d) == <<"indices", wd, d>>
BuildEmbeddingMatrix(wd, file) == <<"embedding_matrix", wd, file>>

Call(at, op, arg) == [at |-> at, op |-> op, arg |-> arg]

\* Every file of the model: the input files and the files of the target
\* directory.
Paths ==
  {Join(inputdir, n) : n \in InputNames}
    \cup {Join(targetdir, n) : n \in OutputNames \cup {NotesTxt}}

\* The config file on disk.
Unreadable == <<"unreadable">>
Json(keys) == <<"json", keys>>

-----------------------------------------------------------------------------
(* The state a run starts in.                                              *)

\* The orders os.listdir may return the names S in: every order, each name
\* once.
Listings(S) ==
  {l \in [1..Cardinality(S) -> S] :
     \A a, b \in 1..Cardinality(S) : a # b => l[a] # l[b]}

\* The names os.listdir(dir) finds.
NamesIn(dir) ==
  {n \in InputNames \cup OutputNames \cup {NotesTxt} :
     Join(dir, n) \in Paths /\ fs[Join(dir, n)] # Absent}

ConfigFiles ==
  {Unreadable} \cup
  {Json(Keys \ m) : m \in {s \in SUBSET Keys : Cardinality(s) <= MaxMissing}}

Init ==
  /\ pc = "open_cfg"
  /\ failedAt = ""
  /\ cfgFile \in ConfigFiles
  /\ config = {}
  /\ argIdx = 1
  /\ posix \in BOOLEAN
  /\ dirs \in SUBSET {inputdir, targetdir}
  /\ \E inputs \in {s \in SUBSET InputNames : Cardinality(s) <= MaxFiles},
        old \in SUBSET OldNames :
       /\ inputdir \notin dirs => inputs = {}
       /\ targetdir \notin dirs => old = {}
       /\ fs = [p \in Paths |->
                  IF p[2] = inputdir /\ p[3] \in inputs THEN Old
                  ELSE IF p[2] = targetdir /\ p[3] \in old THEN Old
                  ELSE Absent]
  /\ dirs0 = dirs
  /\ fs0 = fs
  /\ listing = << >>
  /\ i = 1
  /\ train_file = << >>
  /\ dev_file = << >>
  /\ test_file = << >>
  /\ instances = 0
  /\ worddict = None
  /\ data = None
  /\ transformed_data = None
  /\ embed_matrix = None
  /\ calls = << >>

environment == <<cfgFile, posix, dirs0, fs0>>
selection   == <<listing, i, train_file, dev_file, test_file>>
objects     == <<instances, worddict, data, transformed_data, embed_matrix>>

-----------------------------------------------------------------------------
(* The statements.                                                         *)

\* The call the statement at pc makes.
StmtCall ==
  CASE pc = "open_cfg"         -> Call(pc, "json.load", <<"config">>)
    [] pc = "makedirs"         -> Call(pc, "makedirs", <<"dir", targetdir>>)
    [] pc = "listdir"          -> Call(pc, "listdir", <<"dir", inputdir>>)
    [] pc = "construct"        -> Call(pc, "Preprocessor", None)
    [] pc = "read_train"       -> Call(pc, "read_data", Join(inputdir, train_file))
    [] pc = "read_dev"         -> Call(pc, "read_data", Join(inputdir, dev_file))
    [] pc = "read_test"        -> Call(pc, "read_data", Join(inputdir, test_file))
    [] pc = "build_worddict"   -> Call(pc, "build_worddict", data)
    [] pc \in {"transform_train", "transform_dev", "transform_test"}
                               -> Call(pc, "transform_to_indices", data)
    [] pc = "build_embedding"  -> Call(pc, "build_embedding_matrix",
                                       <<"file", embeddings_file>>)
    [] pc = "open_worddict"    -> Call(pc, "open", Join(targetdir, WorddictPkl))
    [] pc = "dump_worddict"    -> Call(pc, "dump", Join(targetdir, WorddictPkl))
    [] pc = "open_train"       -> Call(pc, "open", Join(targetdir, TrainPkl))
    [] pc = "dump_train"       -> Call(pc, "dump", Join(targetdir, TrainPkl))
    [] pc = "open_dev"         -> Call(pc, "open", Join(targetdir, DevPkl))
    [] pc = "dump_dev"         -> Call(pc, "dump", Join(targetdir, DevPkl))
    [] pc = "open_test"        -> Call(pc, "open", Join(targetdir, TestPkl))
    [] pc = "dump_test"        -> Call(pc, "dump", Join(targetdir, TestPkl))
    [] pc = "open_embeddings"  -> Call(pc, "open", Join(targetdir, EmbeddingsPkl))
    [] pc = "dump_embeddings"  -> Call(pc, "dump", Join(targetdir, EmbeddingsPkl))

Logged == calls' = Append(calls, StmtCall)

\* The statement at pc raises: the run ends there with what it had done.
Raised ==
  /\ pc' = "failed"
  /\ failedAt' = pc

\* with open(args.config) as cfg_file: config = json.load(cfg_file)
OpenConfig ==
  /\ pc = "open_cfg"
  /\ Logged
  /\ IF cfgFile = Unreadable
       THEN Raised /\ UNCHANGED config
       ELSE pc' = "args" /\ config' = cfgFile[2] /\ UNCHANGED failedAt
  /\ UNCHANGED <<argIdx, dirs, fs, environment, selection, objects>>

\* EvalArg with a default for a missing key (config.get(key)).
EvalArg_DefaultsForMissing ==
  /\ pc = "args"
  /\ UNCHANGED failedAt
  /\ IF argIdx = Len(KeyOrder)
       THEN pc' = "exists" /\ UNCHANGED argIdx
       ELSE pc' = "args" /\ argIdx' = argIdx + 1
  /\ UNCHANGED <<config, dirs, fs, calls, environment, selection, objects>>

\* One argument of the call of preprocess_SNLI_data: config[key] raises
\* KeyError for a missing key; after the last argument the function is
\* entered.
EvalArg ==
  /\ pc = "args"
  /\ IF KeyOrder[argIdx] \notin config
       THEN Raised /\ UNCHANGED argIdx
       ELSE /\ UNCHANGED failedAt
            /\ IF argIdx = Len(KeyOrder)
                 THEN pc' = "exists" /\ UNCHANGED argIdx
                 ELSE pc' = "args" /\ argIdx' = argIdx + 1
  /\ UNCHANGED <<config, dirs, fs, calls, environment, selection, objects>>

\* CheckTargetDir without the test: makedirs whatever exists.
CheckTargetDir_AlwaysCreates ==
  /\ pc = "exists"
  /\ pc' = "makedirs"
  /\ UNCHANGED <<failedAt, config, argIdx, dirs, fs, calls, environment,
                 selection, objects>>

\* if not os.path.exists(targetdir):
CheckTargetDir ==
  /\ pc = "exists"
  /\ pc' = IF targetdir \in dirs THEN "listdir" ELSE "makedirs"
  /\ UNCHANGED <<failedAt, config, argIdx, dirs, fs, calls, environment,
                 selection, objects>>

\* os.makedirs(targetdir)
MakeDirs ==
  /\ pc = "makedirs"
  /\ Logged
  /\ dirs' = dirs \cup {targetdir}
  /\ pc' = "listdir"
  /\ UNCHANGED <<failedAt, config, argIdx, fs, environment, selection, objects>>

\* train_file = dev_file = test_file = ""; os.listdir(inputdir), which needs
\* the directory to exist.
ListDir ==
  /\ pc = "listdir"
  /\ inputdir \in dirs
  /\ Logged
  /\ \E l \in Listings(NamesIn(inputdir)) : listing' = l
  /\ i' = 1
  /\ train_file' = << >>
  /\ dev_file' = << >>
  /\ test_file' = << >>
  /\ pc' = "loop"
  /\ UNCHANGED <<failedAt, config, argIdx, dirs, fs, environment, objects>>

\* ForFile keeping the first match of each split instead of the last.
ForFile_FirstMatchWins ==
  /\ pc = "loop"
  /\ IF i > Len(listing)
       THEN /\ pc' = "construct"
            /\ UNCHANGED <<i, train_file, dev_file, test_file>>
       ELSE LET file == listing[i] IN
            /\ pc' = "loop"
            /\ i' = i + 1
            /\ IF FnMatch(file, TrainPat) /\ train_file = << >>
                 THEN train_file' = file /\ UNCHANGED <<dev_file, test_file>>
               ELSE IF FnMatch(file, DevPat) /\ dev_file = << >>
                 THEN dev_file' = file /\ UNCHANGED <<train_file, test_file>>
               ELSE IF FnMatch(file, TestPat) /\ test_file = << >>
                 THEN test_file' = file /\ UNCHANGED <<train_file, dev_file>>
               ELSE UNCHANGED <<train_file, dev_file, test_file>>
  /\ UNCHANGED <<failedAt, config, argIdx, dirs, fs, calls, listing,
                 environment, objects>>

\* ForFile testing the same name again and again.
ForFile_NoAdvance ==
  /\ pc = "loop"
  /\ IF i > Len(listing)
       THEN /\ pc' = "construct"
            /\ UNCHANGED <<i, train_file, dev_file, test_file>>
       ELSE LET file == listing[i] IN
            /\ pc' = "loop"
            /\ i' = i
            /\ IF FnMatch(file, TrainPat)
                 THEN train_file' = file /\ UNCHANGED <<dev_file, test_file>>
               ELSE IF FnMatch(file, DevPat)
                 THEN dev_file' = file /\ UNCHANGED <<train_file, test_file>>
               ELSE IF FnMatch(file, TestPat)
                 THEN test_file' = file /\ UNCHANGED <<train_file, dev_file>>
               ELSE UNCHANGED <<train_file, dev_file, test_file>>
  /\ UNCHANGED <<failedAt, config, argIdx, dirs, fs, calls, listing,
                 environment, objects>>

\* One iteration of the for loop, or its end.
ForFile ==
  /\ pc = "loop"
  /\ IF i > Len(listing)
       THEN /\ pc' = "construct"
            /\ UNCHANGED <<i, train_file, dev_file, test_file>>
       ELSE LET file == listing[i] IN
            /\ pc' = "loop"
            /\ i' = i + 1
            /\ IF FnMatch(file, TrainPat)
                 THEN train_file' = file /\ UNCHANGED <<dev_file, test_file>>
               ELSE IF FnMatch(file, DevPat)
                 THEN dev_file' = file /\ UNCHANGED <<train_file, test_file>>
               ELSE IF FnMatch(file, TestPat)
                 THEN test_file' = file /\ UNCHANGED <<train_file, dev_file>>
               ELSE UNCHANGED <<train_file, dev_file, test_file>>
  /\ UNCHANGED <<failedAt, config, argIdx, dirs, fs, calls, listing,
                 environment, objects>>

\* preprocessor = Preprocessor(...)
Construct ==
  /\ pc = "construct"
  /\ Logged
  /\ instances' = instances + 1
  /\ worddict' = None
  /\ pc' = "read_train"
  /\ UNCHANGED <<failedAt, config, argIdx, dirs, fs, environment, selection,
                 data, transformed_data, embed_matrix>>

\* data = preprocessor.read_data(os.path.join(inputdir, file))
ReadSplit(at, file, next) ==
  /\ pc = at
  /\ Logged
  /\ data' = ReadData(Join(inputdir, file))
  /\ pc' = next
  /\ UNCHANGED <<failedAt, config, argIdx, dirs, fs, environment, selection,
                 instances, worddict, transformed_data, embed_matrix>>

\* transformed_data = preprocessor.transform_to_indices(data)
TransformSplit(at, next) ==
  /\ pc = at
  /\ Logged
  /\ transformed_data' = TransformToIndices(worddict, data)
  /\ pc' = next
  /\ UNCHANGED <<failedAt, config, argIdx, dirs, fs, environment, selection,
                 instances, worddict, data, embed_matrix>>

\* with open(os.path.join(targetdir, name), 'wb') as pkl_file:
OpenPkl(at, name, next) ==
  /\ pc = at
  /\ Logged
  /\ fs' = [fs EXCEPT ![Join(targetdir, name)] = Empty]
  /\ pc' = next
  /\ UNCHANGED <<failedAt, config, argIdx, dirs, environment, selection,
                 objects>>

\* pickle.dump(value, pkl_file), and the file is closed.
DumpPkl(at, name, value, next) ==
  /\ pc = at
  /\ Logged
  /\ fs' = [fs EXCEPT ![Join(targetdir, name)] = Pickled(value)]
  /\ pc' = next
  /\ UNCHANGED <<failedAt, config, argIdx, dirs, environment, selection,
                 objects>>

ReadTrain == ReadSplit("read_train", train_file, "build_worddict")

\* BuildWorddictStep going on to the transform without saving the worddict.
BuildWorddictStep_NoSave ==
  /\ pc = "build_worddict"
  /\ Logged
  /\ worddict' = BuildWorddict(data)
  /\ pc' = "transform_train"
  /\ UNCHANGED <<failedAt, config, argIdx, dirs, fs, environment, selection,
                 instances, data, transformed_data, embed_matrix>>

\* preprocessor.build_worddict(data)
BuildWorddictStep ==
  /\ pc = "build_worddict"
  /\ Logged
  /\ worddict' = BuildWorddict(data)
  /\ pc' = "open_worddict"
  /\ UNCHANGED <<failedAt, config, argIdx, dirs, fs, environment, selection,
                 instances, data, transformed_data, embed_matrix>>

OpenWorddictPkl == OpenPkl("open_worddict", WorddictPkl, "dump_worddict")
DumpWorddict == DumpPkl("dump_worddict", WorddictPkl, worddict, "transform_train")
TransformTrain == TransformSplit("transform_train", "open_train")
OpenTrainPkl == OpenPkl("open_train", TrainPkl, "dump_train")
DumpTrain == DumpPkl("dump_train", TrainPkl, transformed_data, "read_dev")

\* ReadDev followed by a second build_worddict, on the dev data.
ReadDev_RebuildsWorddict ==
  /\ pc = "read_dev"
  /\ Logged
  /\ data' = ReadData(Join(inputdir, dev_file))
  /\ worddict' = BuildWorddict(data')
  /\ pc' = "transform_dev"
  /\ UNCHANGED <<failedAt, config, argIdx, dirs, fs, environment, selection,
                 instances, transformed_data, embed_matrix>>

ReadDev == ReadSplit("read_dev", dev_file, "transform_dev")
\* TransformDev that does not assign transformed_data.
TransformDev_KeepsStale ==
  /\ pc = "transform_dev"
  /\ Logged
  /\ pc' = "open_dev"
  /\ UNCHANGED <<failedAt, config, argIdx, dirs, fs, environment, selection,
                 objects>>

TransformDev == TransformSplit("transform_dev", "open_dev")
OpenDevPkl == OpenPkl("open_dev", DevPkl, "dump_dev")
DumpDev == DumpPkl("dump_dev", DevPkl, transformed_data, "read_test")

\* ReadTest reading the dev file again.
ReadTest_ReadsDevFile == ReadSplit("read_test", dev_file, "transform_test")

ReadTest == ReadSplit("read_test", test_file, "transform_test")
TransformTest == TransformSplit("transform_test", "open_test")
OpenTestPkl == OpenPkl("open_test", TestPkl, "dump_test")
DumpTest == DumpPkl("dump_test", TestPkl, transformed_data, "build_embedding")

\* embed_matrix = preprocessor.build_embedding_matrix(embeddings_file)
BuildEmbedding ==
  /\ pc = "build_embedding"
  /\ Logged
  /\ embed_matrix' = BuildEmbeddingMatrix(worddict, embeddings_file)
  /\ pc' = "open_embeddings"
  /\ UNCHANGED <<failedAt, config, argIdx, dirs, fs, environment, selection,
                 instances, worddict, data, transformed_data>>

OpenEmbeddingsPkl == OpenPkl("open_embeddings", EmbeddingsPkl, "dump_embeddings")
DumpEmbeddings == DumpPkl("dump_embeddings", EmbeddingsPkl, embed_matrix, "done")

\* The statements that call out of the script, each of which can raise.
DumpStmts == {"dump_worddict", "dump_train", "dump_dev", "dump_test",
              "dump_embeddings"}
RaisingStmts ==
  {"makedirs", "listdir", "construct", "read_train", "read_dev", "read_test",
   "build_worddict", "transform_train", "transform_dev", "transform_test",
   "build_embedding", "open_worddict", "open_train", "open_dev", "open_test",
   "open_embeddings"} \cup DumpStmts

\* The files after the statement at pc raised: unchanged, but for a
\* pickle.dump, which may have written a part of the pickle into its file.
AfterRaise ==
  IF pc \in DumpStmts
    THEN {[fs EXCEPT ![StmtCall.arg] = c] : c \in {Empty, Partial}}
    ELSE {fs}

\* Raise with a cleanup that removes what the run has written.
Raise_RollsBack ==
  /\ pc \in RaisingStmts
  /\ Logged
  /\ Raised
  /\ fs' = fs0
  /\ UNCHANGED <<config, argIdx, dirs, environment, selection, objects>>

\* A call raises and the exception leaves the script: nothing is caught and
\* nothing is undone.
Raise ==
  /\ pc \in RaisingStmts
  /\ Logged
  /\ Raised
  /\ fs' \in AfterRaise
  /\ UNCHANGED <<config, argIdx, dirs, environment, selection, objects>>

Next ==
  \/ OpenConfig \/ EvalArg \/ CheckTargetDir \/ MakeDirs \/ ListDir \/ ForFile
  \/ Construct \/ ReadTrain \/ BuildWorddictStep \/ OpenWorddictPkl
  \/ DumpWorddict \/ TransformTrain \/ OpenTrainPkl \/ DumpTrain
  \/ ReadDev \/ TransformDev \/ OpenDevPkl \/ DumpDev
  \/ ReadTest \/ TransformTest \/ OpenTestPkl \/ DumpTest
  \/ BuildEmbedding \/ OpenEmbeddingsPkl \/ DumpEmbeddings
  \/ Raise

Spec == Init /\ [][Next]_vars

\* Every statement returns or raises: the run goes on while it can.
FairSpec == Spec /\ WF_vars(Next)
-----------------------------------------------------------------------------
(* Vocabulary of the properties.                                           *)

Range(s) == {s[k] : k \in DOMAIN s}

\* The statement `at` was reached and its call made; the call returned.
Made(at) == \E k \in DOMAIN calls : calls[k].at = at
Returned(at) == Made(at) /\ failedAt # at

\* The positions in calls of the calls of `op`.
CallsOf(op) == {k \in DOMAIN calls : calls[k].op = op}

PreprocessorOps == {"Preprocessor", "read_data", "build_worddict",
                    "transform_to_indices", "build_embedding_matrix"}

TrainPath == Join(inputdir, train_file)
DevPath   == Join(inputdir, dev_file)
TestPath  == Join(inputdir, test_file)

\* The worddict built from the data of the selected train file.
TrainWorddict == BuildWorddict(ReadData(TrainPath))

\* The pattern of the n-th split and the name selected for it.
SplitPats  == <<TrainPat, DevPat, TestPat>>
SplitFiles == <<train_file, dev_file, test_file>>

\* What each output file holds once it is written.
FinalContent ==
  <<Pickled(TrainWorddict),
    Pickled(TransformToIndices(TrainWorddict, ReadData(TrainPath))),
    Pickled(TransformToIndices(TrainWorddict, ReadData(DevPath))),
    Pickled(TransformToIndices(TrainWorddict, ReadData(TestPath))),
    Pickled(BuildEmbeddingMatrix(TrainWorddict, embeddings_file))>>

OutputPath(n) == Join(targetdir, OutputOrder[n])
OutputPaths == {OutputPath(n) : n \in DOMAIN OutputOrder}

\* The last name of l that matches pat, "" when none does.
Matching(l, pat) == {k \in DOMAIN l : FnMatch(l[k], pat)}
LastMatching(l, pat) ==
  LET m == Matching(l, pat) IN
  IF m = {} THEN << >> ELSE l[CHOOSE k \in m : \A j \in m : j <= k]

\* The config file cannot be read or lacks a required key.
BadConfig == cfgFile = Unreadable \/ cfgFile[2] # Keys

-----------------------------------------------------------------------------
(* The claims.                                                             *)

\* C1: every path passed to read_data is inputdir joined with a name of the
\* directory listing that matches the pattern of the split being read
\* ('*_train.txt' for the 1st read, '*_dev.txt' for the 2nd, '*_test.txt'
\* for the 3rd), never with the empty name.
C1_ReadsOnlyMatchingFiles ==
  \A k \in CallsOf("read_data") :
    LET nth == Cardinality({j \in CallsOf("read_data") : j <= k}) IN
    \E n \in Range(listing) :
      /\ n # << >>
      /\ calls[k].arg = Join(inputdir, n)
      /\ FnMatch(n, SplitPats[nth])

C3_CallsOfACompleteRun ==
  pc = "done" =>
    LET IsPre(c) == c.op \in PreprocessorOps
        pre == SelectSeq(calls, IsPre)
    IN /\ [k \in DOMAIN pre |-> pre[k].op] =
            <<"Preprocessor", "read_data", "build_worddict",
              "transform_to_indices", "read_data", "transform_to_indices",
              "read_data", "transform_to_indices", "build_embedding_matrix">>
       /\ [k \in DOMAIN pre |-> pre[k].arg] =
            <<None, TrainPath, ReadData(TrainPath), ReadData(TrainPath),
              DevPath, ReadData(DevPath), TestPath, ReadData(TestPath),
              <<"file", embeddings_file>> >>
       /\ instances = 1

C3_Witness ==
  /\ pc = "done"
  /\ Cardinality(CallsOf("read_data")) = 3
  /\ Cardinality(CallsOf("build_embedding_matrix")) = 1

\* C4: when the run completes, each of the five output files holds the
\* pickle of its own value (worddict.pkl the train-built worddict, each
\* <split>_data.pkl the transform of the data read from the file selected
\* for that split, embeddings.pkl the embedding matrix), each file was opened
\* once and dumped once, and a file selected for a split is a file of the
\* listing that matches that split's pattern and is the file of no other
\* split.
C4_OutputsOfACompleteRun ==
  pc = "done" =>
    /\ \A n \in DOMAIN OutputOrder :
         /\ fs[OutputPath(n)] = FinalContent[n]
         /\ Cardinality({k \in CallsOf("open") : calls[k].arg = OutputPath(n)}) = 1
         /\ Cardinality({k \in CallsOf("dump") : calls[k].arg = OutputPath(n)}) = 1
    /\ fs[OutputPath(1)] = Pickled(worddict)
    /\ fs[OutputPath(5)] = Pickled(embed_matrix)
    /\ \A n \in 1..3 :
         SplitFiles[n] # << >> =>
           /\ SplitFiles[n] \in Range(listing)
           /\ FnMatch(SplitFiles[n], SplitPats[n])
           /\ \A m \in 1..3 : m # n => SplitFiles[m] # SplitFiles[n]

C4_Witness ==
  /\ pc = "done"
  /\ fs[Join(targetdir, DevPkl)] =
       Pickled(TransformToIndices(TrainWorddict, ReadData(DevPath)))
  /\ fs0[Join(targetdir, DevPkl)] = Old
  /\ DevPath # TrainPath /\ DevPath # TestPath

\* C5: the config is loaded before anything else is called and the keys are
\* all read before the function body starts; the output files are opened in
\* the order worddict.pkl, train_data.pkl, dev_data.pkl, test_data.pkl,
\* embeddings.pkl; worddict.pkl is opened and dumped after build_worddict and
\* before the first transform_to_indices; each <split>_data.pkl is opened
\* right after the transform_to_indices of the data read from that split's
\* file, and embeddings.pkl right after build_embedding_matrix.
C5_ReadCallPickleInOrder ==
  LET opens == SelectSeq(calls, LAMBDA c : c.op = "open") IN
  /\ \A k \in DOMAIN calls : calls[k].op = "json.load" <=> k = 1
  /\ Len(calls) > 1 => config = Keys /\ argIdx = Len(KeyOrder)
  /\ Len(opens) <= Len(OutputOrder)
  /\ \A n \in DOMAIN opens : opens[n].arg = OutputPath(n)
  /\ \A k \in CallsOf("open") \cup CallsOf("dump") :
       /\ calls[k].arg = OutputPath(1) =>
            /\ \E j \in CallsOf("build_worddict") : j < k
            /\ \A j \in CallsOf("transform_to_indices") : k < j
       /\ \A n \in 1..3 :
            calls[k].arg = OutputPath(n + 1) =>
              \E j \in CallsOf("transform_to_indices") :
                /\ j < k
                /\ calls[j].arg = ReadData(Join(inputdir, SplitFiles[n]))
                /\ \A m \in CallsOf("transform_to_indices") : m < k => m <= j
       /\ calls[k].arg = OutputPath(5) =>
            \E j \in CallsOf("build_embedding_matrix") : j < k
  /\ \A k \in CallsOf("dump") : calls[k - 1].op = "open"
                                /\ calls[k - 1].arg = calls[k].arg

C5_Witness ==
  /\ pc = "done"
  /\ Len(SelectSeq(calls, LAMBDA c : c.op = "open")) = 5
  /\ calls[Len(calls)].arg = Join(targetdir, EmbeddingsPkl)

\* The statements that make a call, and the states a run ends in.
CallingStmts == RaisingStmts \cup {"open_cfg"}
Ended == pc \in {"done", "failed"}

\* C6: every run ends (completes or fails); the loop makes one pass over the
\* listing; no statement that makes a call is executed twice, so that apart
\* from the pass over the listing a run has a fixed number of steps; and no
\* step is taken once the run has ended, in particular after embeddings.pkl
\* is written.
C6_OneShotTerminates ==
  /\ <>Ended
  /\ [](/\ i <= Len(listing) + 1
        /\ \A j, k \in DOMAIN calls : j # k => calls[j].at # calls[k].at
        /\ Len(calls) <= Cardinality(CallingStmts))
  /\ [][~Ended]_vars
  /\ [][pc = "loop" /\ pc' = "loop" => i' = i + 1]_vars

C6_Witness ==
  /\ pc = "done"
  /\ Len(listing) = MaxFiles
  /\ i = Len(listing) + 1
  /\ calls[Len(calls)].at = "dump_embeddings"

C8_LastMatchInListingOrder ==
  /\ pc = "loop" =>
       \A n \in Range(listing) :
         Cardinality({s \in 1..3 : FnMatch(n, SplitPats[s])}) <= 1
  /\ Returned("listdir") =>
       /\ LET present == NamesIn(inputdir) IN
            Range(listing) = present /\ Len(listing) = Cardinality(present)
       /\ \A s \in 1..3 :
            SplitFiles[s] = LastMatching(SubSeq(listing, 1, i - 1), SplitPats[s])
  /\ pc = "construct" =>
       \A s \in 1..3 :
         LET own == SelectSeq(listing, LAMBDA n : FnMatch(n, SplitPats[s]))
         IN /\ SplitFiles[s] = IF own = << >> THEN << >> ELSE own[Len(own)]
            /\ Len(own) >= 2 =>
                 \E l \in Listings(Range(listing)) :
                   LastMatching(l, SplitPats[s]) # SplitFiles[s]

C8_Witness ==
  /\ pc = "read_train"
  /\ Cardinality(Matching(listing, TrainPat)) = 2
  /\ Len(listing) = 3
  /\ FnMatch(listing[1], TrainPat)
  /\ train_file = listing[3]
  /\ train_file # listing[1]

\* C9: nothing is rolled back and nothing is written ahead: in every state,
\* and so in the state a raising step leaves, an output file whose dump has
\* returned holds its final content and an output file whose open has not
\* returned holds what it held at the start; when, with a train file, the
\* read of the dev split is about to be made on the directory itself (no
\* '*_dev.txt' file), worddict.pkl and train_data.pkl are written and no
\* other output file is, and so is dev_data.pkl when the read of the test
\* split is; a failed run failed at the last call it made (or at a
\* missing config key).
C9_NoRollback ==
  LET opener == <<"open_worddict", "open_train", "open_dev", "open_test",
                  "open_embeddings">>
      dumper == <<"dump_worddict", "dump_train", "dump_dev", "dump_test",
                  "dump_embeddings">>
  IN
  /\ \A n \in DOMAIN OutputOrder :
       /\ Returned(dumper[n]) => fs[OutputPath(n)] = FinalContent[n]
       /\ ~Returned(opener[n]) => fs[OutputPath(n)] = fs0[OutputPath(n)]
       /\ Returned(opener[n]) /\ ~Returned(dumper[n]) =>
            fs[OutputPath(n)] \in {Empty, Partial}
  /\ \A s \in 2..3 :
       pc = <<"read_train", "read_dev", "read_test">>[s]
         /\ SplitFiles[s] = << >> /\ train_file # << >> =>
           /\ StmtCall.arg = Join(inputdir, << >>)
           /\ \A n \in DOMAIN OutputOrder :
                fs[OutputPath(n)] =
                  IF n <= s THEN FinalContent[n] ELSE fs0[OutputPath(n)]
  /\ pc = "failed" =>
       /\ failedAt # ""
       /\ failedAt # "args" => calls[Len(calls)].at = failedAt

C9_Witness ==
  /\ pc = "failed"
  /\ failedAt = "read_test"
  /\ test_file = << >>
  /\ fs0[Join(targetdir, DevPkl)] = Old
  /\ fs[Join(targetdir, DevPkl)] = FinalContent[3]
  /\ fs[Join(targetdir, TestPkl)] = Absent

\* C10: with a config file that cannot be read or that lacks any of the ten
\* keys, the run never gets into preprocess_SNLI_data: it is reading the
\* config or has failed doing so, no directory is created, no file is
\* written, no Preprocessor is made or called.
C10_BadConfigFailsBeforeEntry ==
  BadConfig =>
    /\ pc \in {"open_cfg", "args", "failed"}
    /\ pc = "failed" => failedAt \in {"open_cfg", "args"}
    /\ pc = "failed" /\ failedAt = "args" =>
         KeyOrder[argIdx] \notin config /\ \A k \in 1..(argIdx - 1) : KeyOrder[k] \in config
    /\ dirs = dirs0
    /\ fs = fs0
    /\ instances = 0
    /\ \A k \in DOMAIN calls : calls[k].op = "json.load"

C10_Witness ==
  /\ pc = "failed"
  /\ failedAt = "args"
  /\ cfgFile = Json(Keys \ {"eos"})
  /\ argIdx = Len(KeyOrder)

====
